---- MODULE Spec2Model ----
(***************************************************************************)
(* Model of radon/visitors.py: the record types Function and Class, the    *)
(* cyclomatic-complexity visitor (ComplexityVisitor) and the Halstead      *)
(* visitor (HalsteadVisitor), both run over a syntax tree.                 *)
(*                                                                         *)
(* A syntax tree is a sequence of node records.  Node i (1..Len) has a     *)
(* parent (0 is the Module root), the field ("slot") of the parent it      *)
(* sits in, its class name ("kind"), its col_offset, and its own leaf      *)
(* children (Name nodes, Attribute nodes over a plain name, and literals)  *)
(* listed in "leaves".  Operator and expression-context nodes (Add, And,   *)
(* Load, ...) have no fields and no visitor method reacts to them: they    *)
(* are kept as the strings of "ops" or left out.  Node ids double as line  *)
(* numbers.                                                                *)
(***************************************************************************)
EXTENDS Integers, Sequences, FiniteSets, TLC

VARIABLES tree, stack, result, nblocks, hstack, rec

vars == <<tree, stack, result, nblocks, hstack, rec>>

(* ---------------------------- bounds ----------------------------------- *)
MaxNodes == 3
MaxHNodes == 3
MaxBlocksReads == 2
MaxMethods == 3
MaxReal == 30

(* ------------------------- Python values ------------------------------- *)
\* None is the empty option; Some(x) a present value.
None == <<>>
Some(x) == <<x>>

RECURSIVE SumSeq(_)
SumSeq(s) == IF s = <<>> THEN 0 ELSE Head(s) + SumSeq(Tail(s))

RECURSIVE Concat(_)
Concat(ss) == IF ss = <<>> THEN <<>> ELSE Head(ss) \o Concat(Tail(ss))

Range(s) == {s[i] : i \in 1..Len(s)}

(* --------------------------- syntax trees ------------------------------ *)
\* ast.AST._fields of every node class, restricted to the fields that hold
\* nodes (operator and context nodes apart), in the order ast.iter_fields
\* gives them to generic_visit.  TryExcept and TryFinally are the two classes
\* that the grammars before Python 3.3 have in the place of Try.
Fields(k) ==
  CASE k = "Module" -> <<"body", "type_ignores">>
    [] k \in {"Expression", "Interactive"} -> <<"body">>
    [] k = "FunctionType" -> <<"argtypes", "returns">>
    [] k \in {"FunctionDef", "AsyncFunctionDef"} ->
         <<"args", "body", "decorator_list", "returns">>
    [] k = "ClassDef" -> <<"bases", "keywords", "body", "decorator_list">>
    [] k \in {"Return", "Expr", "Attribute", "Await", "Yield", "YieldFrom",
              "Starred", "keyword", "MatchValue"} -> <<"value">>
    [] k = "Delete" -> <<"targets">>
    [] k = "Assign" -> <<"targets", "value">>
    [] k \in {"AugAssign", "NamedExpr"} -> <<"target", "value">>
    [] k = "AnnAssign" -> <<"target", "annotation", "value">>
    [] k \in {"For", "AsyncFor"} -> <<"target", "iter", "body", "orelse">>
    [] k \in {"While", "If", "IfExp"} -> <<"test", "body", "orelse">>
    [] k \in {"With", "AsyncWith"} -> <<"items", "body">>
    [] k = "withitem" -> <<"context_expr", "optional_vars">>
    [] k = "Match" -> <<"subject", "cases">>
    [] k = "match_case" -> <<"pattern", "guard", "body">>
    [] k = "MatchAs" -> <<"pattern">>
    [] k = "MatchClass" -> <<"cls", "patterns", "kwd_patterns">>
    [] k = "MatchMapping" -> <<"keys", "patterns">>
    [] k \in {"MatchOr", "MatchSequence"} -> <<"patterns">>
    [] k = "Raise" -> <<"exc", "cause">>
    [] k = "Assert" -> <<"test", "msg">>
    [] k \in {"Try", "TryStar"} -> <<"body", "handlers", "orelse", "finalbody">>
    [] k = "TryExcept" -> <<"body", "handlers", "orelse">>
    [] k = "TryFinally" -> <<"body", "finalbody">>
    [] k = "ExceptHandler" -> <<"type", "body">>
    [] k \in {"Import", "ImportFrom"} -> <<"names">>
    [] k \in {"BoolOp", "JoinedStr"} -> <<"values">>
    [] k = "BinOp" -> <<"left", "right">>
    [] k = "UnaryOp" -> <<"operand">>
    [] k = "Lambda" -> <<"args", "body">>
    [] k = "arguments" -> <<"posonlyargs", "args", "vararg", "kwonlyargs",
                            "kw_defaults", "kwarg", "defaults">>
    [] k = "arg" -> <<"annotation">>
    [] k = "Dict" -> <<"keys", "values">>
    [] k \in {"List", "Set", "Tuple"} -> <<"elts">>
    [] k \in {"ListComp", "SetComp", "GeneratorExp"} -> <<"elt", "generators">>
    [] k = "DictComp" -> <<"key", "value", "generators">>
    [] k = "comprehension" -> <<"target", "iter", "ifs">>
    [] k = "Compare" -> <<"left", "comparators">>
    [] k = "Call" -> <<"func", "args", "keywords">>
    [] k = "FormattedValue" -> <<"value", "format_spec">>
    [] k = "Subscript" -> <<"value", "slice">>
    [] k = "Slice" -> <<"lower", "upper", "step">>
    [] OTHER -> <<>>

Root == 0
NodeIds(t) == 1..Len(t)
KindOf(t, n) == IF n = Root THEN "Module" ELSE t[n].kind

\* The child nodes of n held in field s, in source order.
Kids(t, n, s) ==
  SelectSeq([i \in 1..Len(t) |-> i],
            LAMBDA i : t[i].parent = n /\ t[i].slot = s)

LeavesIn(t, n, s) ==
  IF n = Root THEN <<>> ELSE SelectSeq(t[n].leaves, LAMBDA l : l.slot = s)

\* len(node.<s>) for a list field s.
FieldLen(t, n, s) == Len(Kids(t, n, s)) + Len(LeavesIn(t, n, s))

\* ast.iter_child_nodes: the children in field order.
ChildNodes(t, n) ==
  LET f == Fields(KindOf(t, n))
  IN Concat([j \in 1..Len(f) |-> Kids(t, n, f[j])])

RECURSIVE Ancestors(_, _)
Ancestors(t, n) ==
  IF n = Root THEN {} ELSE {t[n].parent} \cup Ancestors(t, t[n].parent)

(* ------------------------ bounded tree inputs -------------------------- *)
StmtKinds == {"FunctionDef", "ClassDef", "If", "While", "For", "Try", "With",
              "TryExcept", "TryFinally",
              "Assert", "Expr", "Return", "Pass", "Assign", "AugAssign"}
ExprKinds == {"BoolOp", "BinOp", "UnaryOp", "Compare", "Lambda", "IfExp",
              "ListComp", "Call", "Attribute"}

\* The kind of node a field holds.
SlotHolds(pk, s) ==
  IF pk \in {"Module", "FunctionDef", "ClassDef", "If", "While", "For", "Try",
             "TryExcept", "TryFinally",
             "ExceptHandler", "With"} /\ s \in {"body", "orelse", "finalbody"}
  THEN "stmt"
  ELSE IF s = "handlers" THEN "ExceptHandler"
  ELSE IF s = "generators" THEN "comprehension"
  ELSE IF s = "items" THEN "withitem"
  ELSE IF s = "type_ignores" THEN "TypeIgnore"
  ELSE IF s = "keywords" THEN "keyword"
  ELSE IF pk \in {"FunctionDef", "Lambda"} /\ s = "args" THEN "arguments"
  ELSE IF pk = "arguments" /\ s \in {"posonlyargs", "args", "vararg",
                                      "kwonlyargs", "kwarg"} THEN "arg"
  ELSE "expr"

ListSlots == {"decorator_list", "values", "comparators", "ifs", "bases",
              "targets", "args", "kw_defaults", "defaults"}

\* The fields that hold what is assigned to.
TargetSlots == {"target", "targets", "optional_vars"}

Leaf(s, k, v) == [slot |-> s, kind |-> k, val |-> v]
Tmpl(k, nm, o, lv) == [kind |-> k, name |-> nm, ops |-> o, leaves |-> lv]
Plain(k) == Tmpl(k, "", <<>>, <<>>)

RankOf(f, s) == CHOOSE j \in 1..Len(f) : f[j] = s

RECURSIVE DropFirst(_, _)
DropFirst(ls, s) ==
  IF ls = <<>> THEN <<>>
  ELSE IF Head(ls).slot = s THEN Tail(ls)
  ELSE <<Head(ls)>> \o DropFirst(Tail(ls), s)

\* May template tp be attached under p in field s of tree t?
CanAttach(t, p, s, tp) ==
  LET pk == KindOf(t, p)
      f == Fields(pk)
      holds == SlotHolds(pk, s)
      hasLeaf == LeavesIn(t, p, s) # <<>>
  IN /\ \E j \in 1..Len(f) : f[j] = s
     /\ \A i \in NodeIds(t) :
          t[i].parent = p => RankOf(f, t[i].slot) <= RankOf(f, s)
     /\ CASE holds = "stmt" -> tp.kind \in StmtKinds
          [] holds = "expr" ->
                      /\ tp.kind \in ExprKinds
                      /\ s \notin TargetSlots
                      /\ \/ hasLeaf
                         \/ /\ pk \notin {"BoolOp", "BinOp", "UnaryOp",
                                          "AugAssign", "Compare"}
                            /\ s \in ListSlots \/ Kids(t, p, s) = <<>>
          [] OTHER -> /\ tp.kind = holds
                      /\ holds = "arguments" => Kids(t, p, s) = <<>>

\* The column of a node under p in field s, in a source indented by four
\* columns a block: a statement of a block is one step right of the block's
\* owner, anything else is given the column of its parent.
Indent(t, p, s) ==
  IF p = Root THEN 0
  ELSE IF SlotHolds(KindOf(t, p), s) = "stmt" THEN t[p].col_offset + 4
  ELSE t[p].col_offset

\* Attach a node: an expression child takes the place of a leaf of the field.
Attach(t, p, s, tp) ==
  LET id == Len(t) + 1
      nm == IF tp.name # "" THEN tp.name
            ELSE IF tp.kind = "FunctionDef" THEN "f" \o ToString(id)
            ELSE IF tp.kind = "ClassDef" THEN "C" \o ToString(id)
            ELSE ""
      nd == [kind |-> tp.kind, name |-> nm, ops |-> tp.ops,
             leaves |-> tp.leaves, parent |-> p, slot |-> s,
             col_offset |-> Indent(t, p, s)]
      t1 == IF p # Root /\ SlotHolds(KindOf(t, p), s) = "expr"
            THEN [t EXCEPT ![p].leaves = DropFirst(@, s)]
            ELSE t
  IN Append(t1, nd)

\* Nodes are numbered in source order: a new node goes under the last node
\* or one of its ancestors.
RightPath(t) ==
  IF t = <<>> THEN {Root} ELSE {Len(t)} \cup Ancestors(t, Len(t))

Extend(t, menu) ==
  UNION {
    LET f == Fields(KindOf(t, p))
    IN {Attach(t, p, x[1], x[2]) : x \in
         {y \in Range(f) \X menu : CanAttach(t, p, y[1], y[2])}}
    : p \in RightPath(t)}

RECURSIVE TreesOfSize(_, _)
TreesOfSize(n, menu) ==
  IF n = 0 THEN {<<>>}
  ELSE UNION {Extend(t, menu) : t \in TreesOfSize(n - 1, menu)}

TreesUpTo(n, menu) == UNION {TreesOfSize(k, menu) : k \in 0..n}


\* A tree written out node by node: <<parent, field, template>> each.
RECURSIVE Build(_, _)
Build(t, steps) ==
  IF steps = <<>> THEN t
  ELSE Build(Attach(t, Head(steps)[1], Head(steps)[2], Head(steps)[3]),
             Tail(steps))

BoolOpOf(op, names) ==
  Tmpl("BoolOp", "", <<op>>,
       [i \in 1..Len(names) |-> Leaf("values", "Name", names[i])])

\* Inputs of the complexity visitor: every tree of up to MaxNodes nodes over
\* the definition kinds, if, for (with its else clause) and a boolean
\* combination ...
MenuCC ==
  {Plain("FunctionDef"), Plain("ClassDef"), Plain("If"), Plain("For"),
   BoolOpOf("And", <<"a", "b">>)}

\* ... and larger programs, one line of the comment per tree.
ProgramsCC ==
  { \* def f(): return 1 if x else 2
    Build(<<>>, <<<<0, "body", Plain("FunctionDef")>>,
                  <<1, "body", Plain("Return")>>,
                  <<2, "value", Plain("IfExp")>>>>),
    \* class C: def m(self): for i in x: pass
    Build(<<>>, <<<<0, "body", Plain("ClassDef")>>,
                  <<1, "body", Plain("FunctionDef")>>,
                  <<2, "body", Plain("For")>>>>),
    \* class C: def m(self): for ...: pass / def n(self): if a and b and c: pass
    \* def f(): pass
    Build(<<>>, <<<<0, "body", Plain("ClassDef")>>,
                  <<1, "body", Plain("FunctionDef")>>,
                  <<2, "body", Plain("For")>>,
                  <<1, "body", Plain("FunctionDef")>>,
                  <<4, "body", Plain("If")>>,
                  <<5, "test", BoolOpOf("And", <<"a", "b", "c">>)>>,
                  <<0, "body", Plain("FunctionDef")>>>>),
    \* try: (def f(): pass) except: (if x: pass) except: pass else: (def g(): pass)
    Build(<<>>, <<<<0, "body", Plain("Try")>>,
                  <<1, "body", Plain("FunctionDef")>>,
                  <<1, "handlers", Plain("ExceptHandler")>>,
                  <<3, "body", Plain("If")>>,
                  <<1, "handlers", Plain("ExceptHandler")>>,
                  <<1, "orelse", Plain("FunctionDef")>>>>),
    \* the same statement in the grammar before Python 3.3, inside a
    \* try/finally: TryFinally(TryExcept(body, handlers, orelse), finalbody)
    Build(<<>>, <<<<0, "body", Plain("TryFinally")>>,
                  <<1, "body", Plain("TryExcept")>>,
                  <<2, "body", Plain("FunctionDef")>>,
                  <<2, "handlers", Plain("ExceptHandler")>>,
                  <<4, "body", Plain("If")>>,
                  <<2, "handlers", Plain("ExceptHandler")>>,
                  <<2, "orelse", Plain("FunctionDef")>>,
                  <<1, "finalbody", Plain("If")>>>>),
    \* class C: try: (def m(self): pass) except: (def n(self): pass)
    Build(<<>>, <<<<0, "body", Plain("ClassDef")>>,
                  <<1, "body", Plain("Try")>>,
                  <<2, "body", Plain("FunctionDef")>>,
                  <<2, "handlers", Plain("ExceptHandler")>>,
                  <<4, "body", Plain("FunctionDef")>>>>),
    \* def f(): [x for x in y if x]; g = lambda: x; assert x
    Build(<<>>, <<<<0, "body", Plain("FunctionDef")>>,
                  <<1, "body", Plain("Expr")>>,
                  <<2, "value", Plain("ListComp")>>,
                  <<3, "generators",
                    Tmpl("comprehension", "", <<>>,
                         <<Leaf("ifs", "Name", "x")>>)>>,
                  <<1, "body", Plain("Expr")>>,
                  <<5, "value", Plain("Lambda")>>,
                  <<1, "body", Plain("Assert")>>>>),
    \* def f(): while x: (with y: pass) else: pass
    \*          def g(): class C: def m(self): if x: pass
    Build(<<>>, <<<<0, "body", Plain("FunctionDef")>>,
                  <<1, "body", Plain("While")>>,
                  <<2, "body", Plain("With")>>,
                  <<2, "orelse", Plain("Pass")>>,
                  <<1, "body", Plain("FunctionDef")>>,
                  <<5, "body", Plain("ClassDef")>>,
                  <<6, "body", Plain("FunctionDef")>>,
                  <<7, "body", Plain("If")>>>>),
    \* @(lambda g: g) def f(): pass;  class C: def m(self): def h(): if x: pass
    Build(<<>>, <<<<0, "body", Plain("FunctionDef")>>,
                  <<1, "decorator_list", Plain("Lambda")>>,
                  <<0, "body", Plain("ClassDef")>>,
                  <<3, "body", Plain("FunctionDef")>>,
                  <<4, "body", Plain("FunctionDef")>>,
                  <<5, "body", Plain("If")>>>>),
    \* def f(): [a if b else c for x in y]; assert x, (a or b)
    \* try: pass / except (A if x else B): pass
    Build(<<>>, <<<<0, "body", Plain("FunctionDef")>>,
                  <<1, "body", Plain("Expr")>>,
                  <<2, "value", Plain("ListComp")>>,
                  <<3, "elt", Plain("IfExp")>>,
                  <<3, "generators", Plain("comprehension")>>,
                  <<1, "body", Plain("Assert")>>,
                  <<6, "msg", BoolOpOf("Or", <<"a", "b">>)>>,
                  <<0, "body", Plain("Try")>>,
                  <<8, "handlers", Plain("ExceptHandler")>>,
                  <<9, "type", Plain("IfExp")>>>>),
    \* with (a or b) as f: pass;  g = lambda x=(a or b): x
    \* class C((a if b else c), k=(a or b)):
    \*     def m(self, x=(a or b)) -> (a or b): if x: pass
    Build(<<>>, <<<<0, "body", Plain("With")>>,
                  <<1, "items", Plain("withitem")>>,
                  <<2, "context_expr", BoolOpOf("Or", <<"a", "b">>)>>,
                  <<0, "body", Tmpl("Assign", "", <<>>,
                                    <<Leaf("targets", "Name", "g")>>)>>,
                  <<4, "value", Plain("Lambda")>>,
                  <<5, "args", Plain("arguments")>>,
                  <<6, "defaults", BoolOpOf("Or", <<"a", "b">>)>>,
                  <<0, "body", Plain("ClassDef")>>,
                  <<8, "bases", Plain("IfExp")>>,
                  <<8, "keywords", Plain("keyword")>>,
                  <<10, "value", BoolOpOf("Or", <<"a", "b">>)>>,
                  <<8, "body", Plain("FunctionDef")>>,
                  <<12, "args", Plain("arguments")>>,
                  <<13, "defaults", BoolOpOf("Or", <<"a", "b">>)>>,
                  <<12, "body", Plain("If")>>,
                  <<12, "returns", BoolOpOf("Or", <<"a", "b">>)>>>>) }

TreesCC == TreesUpTo(MaxNodes, MenuCC) \cup ProgramsCC

(* --------------------------- record model ------------------------------ *)
Function(name, lineno, col_offset, is_method, classname, clojures, complexity) ==
  [tag |-> "Function", name |-> name, lineno |-> lineno,
   col_offset |-> col_offset, is_method |-> is_method,
   classname |-> classname, clojures |-> clojures, complexity |-> complexity]

Class(name, lineno, col_offset, methods, real_complexity) ==
  [tag |-> "Class", name |-> name, lineno |-> lineno,
   col_offset |-> col_offset, methods |-> methods,
   real_complexity |-> real_complexity]

\* Function.letter, and the class attribute Class.letter.
Letter(r) ==
  IF r.tag = "Class" THEN "C" ELSE IF r.is_method THEN "M" ELSE "F"

\* Function.fullname and Class.fullname.
FullName(r) ==
  IF r.tag = "Class" THEN r.name
  ELSE IF r.classname = None THEN r.name
  ELSE r.classname[1] \o "." \o r.name

\* Faulty variant: the average without the added one.
ClassComplexity_avg(c) ==
  IF c.methods = <<>> THEN c.real_complexity
  ELSE c.real_complexity \div Len(c.methods)

\* Class.complexity: int(real_complexity / float(len(methods))) + 1.
\* real_complexity is positive, so int() truncates downwards.
ClassComplexity(c) ==
  IF c.methods = <<>> THEN c.real_complexity
  ELSE (c.real_complexity \div Len(c.methods)) + 1

GET_COMPLEXITY(r) ==
  IF r.tag = "Class" THEN ClassComplexity(r) ELSE r.complexity

GET_REAL_COMPLEXITY(r) == r.real_complexity

(* ------------------------- ComplexityVisitor --------------------------- *)
\* ComplexityVisitor.__init__
ComplexityVisitor(to_method, classname, off) ==
  [off |-> off, complexity |-> IF off THEN 1 ELSE 0, functions |-> <<>>,
   classes |-> <<>>, to_method |-> to_method, classname |-> classname]

\* Faulty variant: the functions' base units are not taken off.
functions_complexity_sum(e) ==
  SumSeq([i \in 1..Len(e.functions) |-> GET_COMPLEXITY(e.functions[i])])

functions_complexity(e) ==
  SumSeq([i \in 1..Len(e.functions) |-> GET_COMPLEXITY(e.functions[i])])
    - Len(e.functions)

classes_complexity(e) ==
  SumSeq([i \in 1..Len(e.classes) |-> GET_REAL_COMPLEXITY(e.classes[i])])
    - Len(e.classes)

\* Faulty variant: no correction for a counter that started at 0.
total_complexity_nooff(e) ==
  e.complexity + functions_complexity(e) + classes_complexity(e)

total_complexity(e) ==
  e.complexity + functions_complexity(e) + classes_complexity(e)
    + (IF ~e.off THEN 1 ELSE 0)

\* The blocks property: the list it returns is the list self.functions
\* itself, so what is appended to it is appended to self.functions.
blocks(e) ==
  e.functions \o
    Concat([i \in 1..Len(e.classes) |-> <<e.classes[i]>> \o e.classes[i].methods])

\* What generic_visit adds to self.complexity for a node.
Contribution(t, n) ==
  LET name == KindOf(t, n)
  IN IF name \in {"Try", "TryExcept"}
       THEN FieldLen(t, n, "handlers") + FieldLen(t, n, "orelse")
     ELSE IF name = "BoolOp" THEN FieldLen(t, n, "values") - 1
     ELSE IF name \in {"Lambda", "With", "If", "IfExp", "Assert"} THEN 1
     ELSE IF name \in {"For", "While"} THEN FieldLen(t, n, "orelse") + 1
     ELSE IF name = "comprehension" THEN FieldLen(t, n, "ifs") + 1
     ELSE 0

\* A frame of the visitor's call stack: a visitor with the nodes it still
\* has to visit, or an activation of visit_FunctionDef / visit_ClassDef with
\* the body statements it still has to hand to child visitors.
EngineFrame(e, todo) ==
  [type |-> "engine", eng |-> e, todo |-> todo, node |-> Root,
   items |-> <<>>, body_complexity |-> 0]

DefFrame(n, todo) ==
  [type |-> "def", eng |-> ComplexityVisitor(FALSE, None, FALSE),
   todo |-> todo, node |-> n, items |-> <<>>, body_complexity |-> 1]

Top == stack[Len(stack)]
Pop(s) == SubSeq(s, 1, Len(s) - 1)
SetTop(s, f) == [s EXCEPT ![Len(s)] = f]

Visiting(k) ==
  /\ stack # <<>>
  /\ Top.type = "engine"
  /\ Top.todo # <<>>
  /\ k = KindOf(tree, Head(Top.todo))

Done == Len(stack) = 1 /\ Top.type = "engine" /\ Top.todo = <<>>

\* Every node class without a visit_* method of its own comes here.
generic_visit ==
  /\ stack # <<>>
  /\ Top.type = "engine"
  /\ Top.todo # <<>>
  /\ KindOf(tree, Head(Top.todo)) \notin {"FunctionDef", "ClassDef"}
  /\ LET n == Head(Top.todo)
     IN stack' = SetTop(stack,
          [Top EXCEPT !.eng.complexity = @ + Contribution(tree, n),
                      !.todo = ChildNodes(tree, n) \o Tail(@)])
  /\ UNCHANGED <<tree, result, nblocks, hstack, rec>>

\* visit_FunctionDef, entry: clojures = [], body_complexity = 1.
visit_FunctionDef ==
  /\ Visiting("FunctionDef")
  /\ LET n == Head(Top.todo)
     IN stack' = Append(SetTop(stack, [Top EXCEPT !.todo = Tail(@)]),
                        DefFrame(n, Kids(tree, n, "body")))
  /\ UNCHANGED <<tree, result, nblocks, hstack, rec>>

\* visit_ClassDef, entry: methods = [], body_complexity = 1.
visit_ClassDef ==
  /\ Visiting("ClassDef")
  /\ LET n == Head(Top.todo)
     IN stack' = Append(SetTop(stack, [Top EXCEPT !.todo = Tail(@)]),
                        DefFrame(n, Kids(tree, n, "body")))
  /\ UNCHANGED <<tree, result, nblocks, hstack, rec>>

InDef(k) ==
  /\ stack # <<>>
  /\ Top.type = "def"
  /\ KindOf(tree, Top.node) = k

\* Faulty variant: the child visitor inherits the method tagging of self.
FunctionDefChild_inherit ==
  /\ InDef("FunctionDef")
  /\ Top.todo # <<>>
  /\ LET self == stack[Len(stack) - 1].eng
     IN stack' = Append(SetTop(stack, [Top EXCEPT !.todo = Tail(@)]),
                        EngineFrame(ComplexityVisitor(self.to_method,
                                                      self.classname, FALSE),
                                    <<Head(Top.todo)>>))
  /\ UNCHANGED <<tree, result, nblocks, hstack, rec>>

\* The loop of visit_FunctionDef: a fresh visitor for the next statement.
FunctionDefChild ==
  /\ InDef("FunctionDef")
  /\ Top.todo # <<>>
  /\ stack' = Append(SetTop(stack, [Top EXCEPT !.todo = Tail(@)]),
                     EngineFrame(ComplexityVisitor(FALSE, None, FALSE),
                                 <<Head(Top.todo)>>))
  /\ UNCHANGED <<tree, result, nblocks, hstack, rec>>

\* The loop of visit_ClassDef: a fresh visitor that tags methods.
ClassDefChild ==
  /\ InDef("ClassDef")
  /\ Top.todo # <<>>
  /\ stack' = Append(SetTop(stack, [Top EXCEPT !.todo = Tail(@)]),
                     EngineFrame(ComplexityVisitor(TRUE,
                                                   Some(tree[Top.node].name),
                                                   FALSE),
                                 <<Head(Top.todo)>>))
  /\ UNCHANGED <<tree, result, nblocks, hstack, rec>>

\* What the loops add to body_complexity once the child visitor is back.
ChildComplexity(visitor) == visitor.complexity + functions_complexity(visitor)

ChildBack(k) ==
  /\ Len(stack) > 1
  /\ Top.type = "engine"
  /\ Top.todo = <<>>
  /\ KindOf(tree, stack[Len(stack) - 1].node) = k

\* Faulty variant: the functions the child visitor found are not collected.
Accumulate_nofunctions ==
  LET visitor == Top.eng
      s == Pop(stack)
      d == s[Len(s)]
  IN SetTop(s, [d EXCEPT !.body_complexity = @ + ChildComplexity(visitor)])

Accumulate ==
  LET visitor == Top.eng
      s == Pop(stack)
      d == s[Len(s)]
  IN SetTop(s, [d EXCEPT !.items = @ \o visitor.functions,
                         !.body_complexity = @ + ChildComplexity(visitor)])

FunctionDefAccumulate ==
  /\ ChildBack("FunctionDef")
  /\ stack' = Accumulate
  /\ UNCHANGED <<tree, result, nblocks, hstack, rec>>

ClassDefAccumulate ==
  /\ ChildBack("ClassDef")
  /\ stack' = Accumulate
  /\ UNCHANGED <<tree, result, nblocks, hstack, rec>>

\* The end of visit_FunctionDef: the record goes to self.functions.
FunctionDefRecord ==
  /\ InDef("FunctionDef")
  /\ Top.todo = <<>>
  /\ LET n == Top.node
         s == Pop(stack)
         self == s[Len(s)].eng
         func == Function(tree[n].name, n, tree[n].col_offset, self.to_method,
                          self.classname, Top.items, Top.body_complexity)
     IN stack' = SetTop(s, [s[Len(s)] EXCEPT
                              !.eng.functions = Append(@, func)])
  /\ UNCHANGED <<tree, result, nblocks, hstack, rec>>

\* The end of visit_ClassDef: the record goes to self.classes.
ClassDefRecord ==
  /\ InDef("ClassDef")
  /\ Top.todo = <<>>
  /\ LET n == Top.node
         s == Pop(stack)
         cls == Class(tree[n].name, n, tree[n].col_offset, Top.items,
                      Top.body_complexity)
     IN stack' = SetTop(s, [s[Len(s)] EXCEPT
                              !.eng.classes = Append(@, cls)])
  /\ UNCHANGED <<tree, result, nblocks, hstack, rec>>

(* Property reads on the visitor that from_ast returned.  result holds the *)
(* last value read, nblocks the number of reads of blocks so far.          *)
Read(prop, value) ==
  /\ stack # <<>>
  /\ Done
  /\ result' = [prop |-> prop, value |-> value]

ReadBlocks ==
  /\ Read("blocks", blocks(Top.eng))
  /\ nblocks < MaxBlocksReads
  /\ nblocks' = nblocks + 1
  /\ stack' = SetTop(stack, [Top EXCEPT !.eng.functions = blocks(Top.eng)])
  /\ UNCHANGED <<tree, hstack, rec>>

ReadFunctions ==
  /\ Read("functions", Top.eng.functions)
  /\ UNCHANGED <<tree, stack, nblocks, hstack, rec>>

ReadFunctionsComplexity ==
  /\ Read("functions_complexity", functions_complexity(Top.eng))
  /\ UNCHANGED <<tree, stack, nblocks, hstack, rec>>

ReadClassesComplexity ==
  /\ Read("classes_complexity", classes_complexity(Top.eng))
  /\ UNCHANGED <<tree, stack, nblocks, hstack, rec>>

ReadTotalComplexity ==
  /\ Read("total_complexity", total_complexity(Top.eng))
  /\ UNCHANGED <<tree, stack, nblocks, hstack, rec>>

NoResult == [prop |-> "none", value |-> 0]
NoRec == Class("", 0, 0, <<>>, 1)

\* from_ast: the visitor is constructed and about to visit the root.
Init ==
  /\ tree \in TreesCC
  /\ \E off \in BOOLEAN :
       stack = <<EngineFrame(ComplexityVisitor(FALSE, None, off), <<Root>>)>>
  /\ result = NoResult
  /\ nblocks = 0
  /\ hstack = <<>>
  /\ rec = NoRec

Next ==
  \/ generic_visit
  \/ visit_FunctionDef
  \/ visit_ClassDef
  \/ FunctionDefChild
  \/ ClassDefChild
  \/ FunctionDefAccumulate
  \/ ClassDefAccumulate
  \/ FunctionDefRecord
  \/ ClassDefRecord
  \/ ReadBlocks
  \/ ReadFunctions
  \/ ReadFunctionsComplexity
  \/ ReadClassesComplexity
  \/ ReadTotalComplexity

Spec == Init /\ [][Next]_vars


(* ------------------- reading the tree independently -------------------- *)
IsDef(t, n) == KindOf(t, n) \in {"FunctionDef", "ClassDef"}

\* The table contributions of n and of every node below it.
RECURSIVE SubtreeContribution(_, _)
SubtreeContribution(t, n) ==
  LET c == ChildNodes(t, n)
  IN Contribution(t, n)
       + SumSeq([j \in 1..Len(c) |-> SubtreeContribution(t, c[j])])

\* The table contributions of n and below, definitions not entered.
RECURSIVE LevelContribution(_, _)
LevelContribution(t, n) ==
  IF IsDef(t, n) THEN 0
  ELSE LET c == ChildNodes(t, n)
       IN Contribution(t, n)
            + SumSeq([j \in 1..Len(c) |-> LevelContribution(t, c[j])])

\* The definitions of kind k met from n without entering a definition.
RECURSIVE DefinedAtLevel(_, _, _)
DefinedAtLevel(t, n, k) ==
  IF KindOf(t, n) = k THEN <<n>>
  ELSE IF IsDef(t, n) THEN <<>>
  ELSE LET c == ChildNodes(t, n)
       IN Concat([j \in 1..Len(c) |-> DefinedAtLevel(t, c[j], k)])

\* The functions defined in the body of f, directly or under statements
\* that are not definitions.
InnerFunctions(t, f) ==
  LET b == Kids(t, f, "body")
  IN Concat([j \in 1..Len(b) |-> DefinedAtLevel(t, b[j], "FunctionDef")])

Linenos(rs) == [i \in 1..Len(rs) |-> rs[i].lineno]

\* Every record held anywhere in the state, nested ones included.
RECURSIVE RecordsOf(_)
RecordsOf(r) ==
  {r} \cup UNION {RecordsOf(x) :
                    x \in Range(IF r.tag = "Class" THEN r.methods
                                ELSE r.clojures)}

AllRecords ==
  UNION {RecordsOf(r) :
    r \in UNION {Range(stack[i].eng.functions) \cup Range(stack[i].eng.classes)
                   \cup Range(stack[i].items) : i \in 1..Len(stack)}}

FunctionRecords == {r \in AllRecords : r.tag = "Function"}
ClassRecords == {r \in AllRecords : r.tag = "Class"}

OnlyMethods(t, n) ==
  \A i \in Range(Kids(t, n, "body")) : KindOf(t, i) = "FunctionDef"

\* A class of one method whose body is one for loop without else clause.
OneForMethod(t, n) ==
  /\ Len(Kids(t, n, "body")) = 1
  /\ LET m == Kids(t, n, "body")[1]
     IN /\ KindOf(t, m) = "FunctionDef"
        /\ Len(Kids(t, m, "body")) = 1
        /\ KindOf(t, Kids(t, m, "body")[1]) = "For"
        /\ ChildNodes(t, Kids(t, m, "body")[1]) = <<>>

MethodSum(c) == SumSeq([i \in 1..Len(c.methods) |-> c.methods[i].complexity])

(* ------------------------------ claims --------------------------------- *)

\* C1 as stated: a class of methods only has real_complexity 1 + the sum of
\* its methods' complexities; one method with one for loop gives method
\* complexity 2, real_complexity 3, complexity 4.
C1_AsStated ==
  \A c \in ClassRecords :
    /\ OnlyMethods(tree, c.lineno) =>
         c.real_complexity = 1 + MethodSum(c)
    /\ OneForMethod(tree, c.lineno) =>
         /\ c.methods[1].complexity = 2
         /\ c.real_complexity = 3
         /\ ClassComplexity(c) = 4

\* C1 amended: a class of methods only has real_complexity 1 + the sum over
\* its methods of (complexity - 1); one method with one for loop gives method
\* complexity 2, real_complexity 2, complexity 3.
C1_RealComplexity ==
  \A c \in ClassRecords :
    /\ OnlyMethods(tree, c.lineno) =>
         /\ Linenos(c.methods) = Kids(tree, c.lineno, "body")
         /\ c.real_complexity = 1 + MethodSum(c) - Len(c.methods)
    /\ OneForMethod(tree, c.lineno) =>
         /\ c.methods[1].complexity = 2
         /\ c.real_complexity = 2
         /\ ClassComplexity(c) = 3

C1_Witness ==
  /\ Done
  /\ \E c \in Range(Top.eng.classes) : OneForMethod(tree, c.lineno)

\* C2: every Function record's complexity is 1 + the table contributions of
\* every node inside the function's body at any depth, nested functions and
\* nested classes included.
C2_AsStated ==
  \A r \in FunctionRecords :
    LET b == Kids(tree, r.lineno, "body")
    IN r.complexity =
         1 + SumSeq([j \in 1..Len(b) |-> SubtreeContribution(tree, b[j])])

\* What the visitor reports for a definition, read off the tree.
RECURSIVE RefComplexity(_, _)
RefComplexity(t, n) ==
  LET b == Kids(t, n, "body")
      inner == InnerFunctions(t, n)
  IN 1 + SumSeq([j \in 1..Len(b) |-> LevelContribution(t, b[j])])
       + SumSeq([j \in 1..Len(inner) |-> RefComplexity(t, inner[j]) - 1])

RefTotal(t) ==
  LET fs == DefinedAtLevel(t, Root, "FunctionDef")
      cs == DefinedAtLevel(t, Root, "ClassDef")
  IN 1 + LevelContribution(t, Root)
       + SumSeq([j \in 1..Len(fs) |-> RefComplexity(t, fs[j]) - 1])
       + SumSeq([j \in 1..Len(cs) |-> RefComplexity(t, cs[j]) - 1])

\* C3: whichever the start offset, total_complexity is one base unit + the
\* contributions counted at this level + functions_complexity +
\* classes_complexity, a number fixed by the tree alone (so that the runs
\* with off=True and off=False agree), and 1 for an empty module.
C3_OneBaseUnit ==
  Done =>
    LET e == Top.eng
        fs == e.functions
        cs == e.classes
    IN /\ total_complexity(e) =
            1 + LevelContribution(tree, Root)
              + SumSeq([i \in 1..Len(fs) |-> GET_COMPLEXITY(fs[i]) - 1])
              + SumSeq([i \in 1..Len(cs) |-> cs[i].real_complexity - 1])
       /\ nblocks = 0 => total_complexity(e) = RefTotal(tree)
       /\ tree = <<>> => total_complexity(e) = 1

C3_Witness ==
  /\ Done
  /\ ~Top.eng.off
  /\ Top.eng.functions # <<>>
  /\ Top.eng.classes # <<>>
  /\ LevelContribution(tree, Root) > 0
  /\ result.prop = "total_complexity"

Min(a, b) == IF a < b THEN a ELSE b

\* C4: a function defined inside f's body is in f's clojures and not in the
\* functions list of the visitor that recorded f; after the traversal the
\* top-level functions list holds no enclosed function; and a visitor's
\* counter changes only when that visitor itself visits a node that is not
\* a definition.
C4_Clojures ==
  /\ [](/\ \A r \in FunctionRecords :
             Linenos(r.clojures) = InnerFunctions(tree, r.lineno)
        /\ nblocks = 0 =>
             \A i \in 1..Len(stack) : \A r \in Range(stack[i].eng.functions) :
               \A x \in RecordsOf(r) \ {r} :
                 x.lineno \notin Range(Linenos(stack[i].eng.functions))
        /\ (Done /\ nblocks = 0) =>
             \A r \in Range(Top.eng.functions) :
               /\ r.tag = "Function"
               /\ \A a \in Ancestors(tree, r.lineno) : ~IsDef(tree, a))
  /\ [][\A i \in 1..Min(Len(stack), Len(stack')) :
          (/\ stack[i].type = "engine"
           /\ stack'[i].type = "engine"
           /\ stack'[i].eng.complexity # stack[i].eng.complexity)
          => /\ i = Len(stack)
             /\ stack[i].todo # <<>>
             /\ ~IsDef(tree, Head(stack[i].todo))]_vars

C4_Witness ==
  /\ Done
  /\ nblocks = 0
  /\ \E r \in Range(Top.eng.functions) :
       \E g \in Range(r.clojures) : tree[g.lineno].parent # r.lineno

\* C6: once the traversal has found a class, no property read changes the
\* visitor's functions list, classes list or counter.
C6_AsStated ==
  [][(Done /\ Done' /\ Top.eng.classes # <<>>) => Top.eng' = Top.eng]_vars

\* C9: a record has a class name exactly if it is a method; the methods of a
\* Class carry that class's name (letter M, fullname Class.name); top-level
\* functions and clojures are not methods (letter F, fullname = name).
C9_MethodTagging ==
  /\ \A r \in FunctionRecords :
       /\ (r.classname # None) <=> r.is_method
       /\ Letter(r) = IF r.is_method THEN "M" ELSE "F"
       /\ r.classname = None => FullName(r) = r.name
       /\ \A x \in Range(r.clojures) : ~x.is_method /\ x.classname = None
  /\ \A c \in ClassRecords : \A m \in Range(c.methods) :
       /\ m.is_method
       /\ m.classname = Some(tree[c.lineno].name)
       /\ Letter(m) = "M"
       /\ FullName(m) = tree[c.lineno].name \o "." \o m.name
  /\ \A r \in Range(stack[1].eng.functions) :
       (r.tag = "Function" /\ \A a \in Ancestors(tree, r.lineno) : ~IsDef(tree, a))
         => ~r.is_method /\ r.classname = None /\ Letter(r) = "F"
                         /\ FullName(r) = r.name

C9_Witness ==
  /\ Done
  /\ \E c \in Range(Top.eng.classes) : \E m \in Range(c.methods) :
       m.clojures # <<>>
  /\ Top.eng.functions # <<>>


(* ----------------------- Class.complexity alone ------------------------ *)
ClassInputs ==
  {Class("C", 1, 0,
         [i \in 1..k |-> Function("m", 1 + i, 4, TRUE, Some("C"), <<>>, 1)],
         r) : k \in 0..MaxMethods, r \in 1..MaxReal}

InitClass ==
  /\ rec \in ClassInputs
  /\ tree = <<>>
  /\ stack = <<>>
  /\ result = NoResult
  /\ nblocks = 0
  /\ hstack = <<>>

ReadClassComplexity ==
  /\ rec \in ClassInputs
  /\ result' = [prop |-> "complexity", value |-> ClassComplexity(rec)]
  /\ UNCHANGED <<tree, stack, nblocks, hstack, rec>>

NextClass == ReadClassComplexity

SpecClass == InitClass /\ [][NextClass]_vars

\* C7: Class.complexity is real_complexity without methods, and otherwise
\* the largest integer not above real_complexity / len(methods), plus one.
C7_ClassComplexity ==
  result.prop = "complexity" =>
    LET n == Len(rec.methods)
        q == result.value - 1
    IN /\ n = 0 => result.value = rec.real_complexity
       /\ n > 0 => /\ n * q <= rec.real_complexity
                   /\ rec.real_complexity < n * (q + 1)

C7_Witness ==
  /\ result.prop = "complexity"
  /\ Len(rec.methods) = 2
  /\ rec.real_complexity = 9
  /\ result.value = 5

(* --------------------------- HalsteadVisitor --------------------------- *)
\* HalsteadVisitor.__init__
HalsteadVisitor(context) ==
  [operators_seen |-> {}, operands_seen |-> {}, operators |-> 0,
   operands |-> 0, context |-> context]

distinct_operators(e) == Cardinality(e.operators_seen)
distinct_operands(e) == Cardinality(e.operands_seen)

\* The nodes held in field s of n: child nodes and leaves alike.  id is the
\* identity of the node object: no two nodes of a tree share it.
Operand(k, v, id) == [kind |-> k, val |-> v, id |-> id]

FieldNodes(t, n, s) ==
  LET ks == Kids(t, n, s)
      ls == LeavesIn(t, n, s)
  IN [i \in 1..Len(ks) |->
        Operand(KindOf(t, ks[i]), t[ks[i]].name, <<ks[i], "", 0>>)]
       \o [i \in 1..Len(ls) |-> Operand(ls[i].kind, ls[i].val, <<n, s, i>>)]

\* HalsteadVisitor.types with the getattr of aux: a node whose class is Num
\* gives its n, a Name its id, an Attribute its attr, any other node itself.
\* A literal is a node of class Constant (ast.parse builds no node of class
\* Num), so each occurrence of a literal is an operand of its own.
NewOperand(operand) ==
  IF operand.kind = "Num" THEN <<"n", operand.val>>
  ELSE IF operand.kind = "Name" THEN <<"str", operand.val>>
  ELSE IF operand.kind = "Attribute" THEN <<"str", operand.val>>
  ELSE <<"node", operand.id>>

\* aux, up to the dispatch to the children.
aux(self, results) ==
  [self EXCEPT
     !.operators = @ + results[1],
     !.operands = @ + results[2],
     !.operators_seen = @ \cup Range(results[3]),
     !.operands_seen = @ \cup {<<self.context, NewOperand(results[4][i])>> :
                                 i \in 1..Len(results[4])}]

BinOp_results(t, n) ==
  <<1, 2, <<t[n].ops[1]>>, FieldNodes(t, n, "left") \o FieldNodes(t, n, "right")>>

UnaryOp_results(t, n) ==
  <<1, 1, <<t[n].ops[1]>>, FieldNodes(t, n, "operand")>>

BoolOp_results(t, n) ==
  <<1, FieldLen(t, n, "values"), <<t[n].ops[1]>>, FieldNodes(t, n, "values")>>

AugAssign_results(t, n) ==
  <<1, 2, <<t[n].ops[1]>>,
    FieldNodes(t, n, "target") \o FieldNodes(t, n, "value")>>

Compare_results(t, n) ==
  <<Len(t[n].ops), FieldLen(t, n, "comparators") + 1, t[n].ops,
    FieldNodes(t, n, "comparators") \o FieldNodes(t, n, "left")>>

HEngineFrame(e, todo) ==
  [type |-> "engine", eng |-> e, todo |-> todo, node |-> Root]

HDefFrame(n, todo) ==
  [type |-> "def", eng |-> HalsteadVisitor(None), todo |-> todo, node |-> n]

HTop == hstack[Len(hstack)]

HVisiting(k) ==
  /\ hstack # <<>>
  /\ HTop.type = "engine"
  /\ HTop.todo # <<>>
  /\ k = KindOf(tree, Head(HTop.todo))

HDone == Len(hstack) = 1 /\ HTop.type = "engine" /\ HTop.todo = <<>>

\* Faulty variant: aux does not go on to the children of the node.
Dispatch_nochildren(results) ==
  /\ hstack' = SetTop(hstack,
       [HTop EXCEPT !.eng = aux(@, results), !.todo = Tail(@)])
  /\ UNCHANGED <<tree, stack, result, nblocks, rec>>

\* A decorated visit_* method: aux, then the children of the node.
Dispatch(results) ==
  LET n == Head(HTop.todo)
  IN /\ hstack' = SetTop(hstack,
          [HTop EXCEPT !.eng = aux(@, results),
                       !.todo = ChildNodes(tree, n) \o Tail(@)])
     /\ UNCHANGED <<tree, stack, result, nblocks, rec>>

visit_BinOp ==
  HVisiting("BinOp") /\ Dispatch(BinOp_results(tree, Head(HTop.todo)))

visit_UnaryOp ==
  HVisiting("UnaryOp") /\ Dispatch(UnaryOp_results(tree, Head(HTop.todo)))

visit_BoolOp ==
  HVisiting("BoolOp") /\ Dispatch(BoolOp_results(tree, Head(HTop.todo)))

visit_AugAssign ==
  HVisiting("AugAssign") /\ Dispatch(AugAssign_results(tree, Head(HTop.todo)))

visit_Compare ==
  HVisiting("Compare") /\ Dispatch(Compare_results(tree, Head(HTop.todo)))

OperatorKinds == {"BinOp", "UnaryOp", "BoolOp", "AugAssign", "Compare"}

\* ast.NodeVisitor.generic_visit for the nodes without a visit_* method.
Halstead_generic_visit ==
  /\ hstack # <<>>
  /\ HTop.type = "engine"
  /\ HTop.todo # <<>>
  /\ KindOf(tree, Head(HTop.todo)) \notin OperatorKinds \cup {"FunctionDef"}
  /\ hstack' = SetTop(hstack,
       [HTop EXCEPT !.todo = ChildNodes(tree, Head(HTop.todo)) \o Tail(@)])
  /\ UNCHANGED <<tree, stack, result, nblocks, rec>>

\* HalsteadVisitor.visit_FunctionDef, entry.
Halstead_visit_FunctionDef ==
  /\ HVisiting("FunctionDef")
  /\ LET n == Head(HTop.todo)
     IN hstack' = Append(SetTop(hstack, [HTop EXCEPT !.todo = Tail(@)]),
                         HDefFrame(n, Kids(tree, n, "body")))
  /\ UNCHANGED <<tree, stack, result, nblocks, rec>>

\* Faulty variant: the child visitor keeps the context of self.
Halstead_from_ast_samecontext ==
  /\ hstack # <<>>
  /\ HTop.type = "def"
  /\ HTop.todo # <<>>
  /\ hstack' = Append(SetTop(hstack, [HTop EXCEPT !.todo = Tail(@)]),
                      HEngineFrame(HalsteadVisitor(
                                     hstack[Len(hstack) - 1].eng.context),
                                   <<Head(HTop.todo)>>))
  /\ UNCHANGED <<tree, stack, result, nblocks, rec>>

\* Its loop: HalsteadVisitor.from_ast(child, context=node.name).
Halstead_from_ast ==
  /\ hstack # <<>>
  /\ HTop.type = "def"
  /\ HTop.todo # <<>>
  /\ hstack' = Append(SetTop(hstack, [HTop EXCEPT !.todo = Tail(@)]),
                      HEngineFrame(HalsteadVisitor(Some(tree[HTop.node].name)),
                                   <<Head(HTop.todo)>>))
  /\ UNCHANGED <<tree, stack, result, nblocks, rec>>

\* Faulty variant: the sets are merged, the counts are not.
Merge_setsonly(self, visitor) ==
  [self EXCEPT
     !.operators_seen = @ \cup visitor.operators_seen,
     !.operands_seen = @ \cup visitor.operands_seen]

\* The child visitor's counts and sets merged into self.
Merge(self, visitor) ==
  [self EXCEPT
     !.operators = @ + visitor.operators,
     !.operands = @ + visitor.operands,
     !.operators_seen = @ \cup visitor.operators_seen,
     !.operands_seen = @ \cup visitor.operands_seen]

Halstead_merge ==
  /\ Len(hstack) > 2
  /\ HTop.type = "engine"
  /\ HTop.todo = <<>>
  /\ LET self == Len(hstack) - 2
     IN hstack' = [Pop(hstack) EXCEPT ![self].eng = Merge(@, HTop.eng)]
  /\ UNCHANGED <<tree, stack, result, nblocks, rec>>

\* visit_FunctionDef returns.
Halstead_return ==
  /\ hstack # <<>>
  /\ HTop.type = "def"
  /\ HTop.todo = <<>>
  /\ hstack' = Pop(hstack)
  /\ UNCHANGED <<tree, stack, result, nblocks, rec>>


\* Inputs of the Halstead visitor: every tree of up to MaxHNodes nodes over
\* functions, classes, expression statements and the five operator kinds ...
OpOf(k, op, leaves) == Tmpl(k, "", <<op>>, leaves)
Name(s, id) == Leaf(s, "Name", id)

MenuH ==
  {Tmpl("FunctionDef", "f", <<>>, <<>>), Tmpl("FunctionDef", "g", <<>>, <<>>),
   Plain("ClassDef"), Plain("Expr"),
   OpOf("AugAssign", "Add", <<Name("target", "a"), Name("value", "b")>>),
   OpOf("BinOp", "Add", <<Name("left", "a"), Name("right", "b")>>),
   OpOf("UnaryOp", "USub", <<Leaf("operand", "Constant", "1")>>),
   OpOf("BoolOp", "And", <<Name("values", "a"), Name("values", "b")>>),
   Tmpl("Compare", "", <<"Lt">>,
        <<Name("left", "a"), Name("comparators", "b")>>)}

\* x = a + b
ScenarioB ==
  Build(<<>>, <<<<0, "body", Tmpl("Assign", "", <<>>,
                                   <<Name("targets", "x")>>)>>,
                <<1, "value", OpOf("BinOp", "Add", <<Name("left", "a"),
                                                     Name("right", "b")>>)>>>>)

\* ... and larger programs, one line of the comment per tree.
ProgramsH ==
  { ScenarioB,
    \* def f(): a += b; a += x.a      def g(): a += b
    Build(<<>>, <<<<0, "body", Tmpl("FunctionDef", "f", <<>>, <<>>)>>,
                  <<1, "body", OpOf("AugAssign", "Add",
                       <<Name("target", "a"), Name("value", "b")>>)>>,
                  <<1, "body", OpOf("AugAssign", "Add",
                       <<Name("target", "a"),
                         Leaf("value", "Attribute", "a")>>)>>,
                  <<0, "body", Tmpl("FunctionDef", "g", <<>>, <<>>)>>,
                  <<4, "body", OpOf("AugAssign", "Add",
                       <<Name("target", "a"), Name("value", "b")>>)>>>>),
    \* class A: def m(self): a += b      class B: def m(self): a += b
    Build(<<>>, <<<<0, "body", Tmpl("ClassDef", "A", <<>>, <<>>)>>,
                  <<1, "body", Tmpl("FunctionDef", "m", <<>>, <<>>)>>,
                  <<2, "body", OpOf("AugAssign", "Add",
                       <<Name("target", "a"), Name("value", "b")>>)>>,
                  <<0, "body", Tmpl("ClassDef", "B", <<>>, <<>>)>>,
                  <<4, "body", Tmpl("FunctionDef", "m", <<>>, <<>>)>>,
                  <<5, "body", OpOf("AugAssign", "Add",
                       <<Name("target", "a"), Name("value", "b")>>)>>>>),
    \* def f(): (def g(): a < b < c); a and b and a
    Build(<<>>, <<<<0, "body", Tmpl("FunctionDef", "f", <<>>, <<>>)>>,
                  <<1, "body", Tmpl("FunctionDef", "g", <<>>, <<>>)>>,
                  <<2, "body", Plain("Expr")>>,
                  <<3, "value", Tmpl("Compare", "", <<"Lt", "Lt">>,
                       <<Name("left", "a"), Name("comparators", "b"),
                         Name("comparators", "c")>>)>>,
                  <<1, "body", Plain("Expr")>>,
                  <<5, "value", OpOf("BoolOp", "And",
                       <<Name("values", "a"), Name("values", "b"),
                         Name("values", "a")>>)>>>>),
    \* x = (a + b) * -c
    Build(<<>>, <<<<0, "body", Tmpl("Assign", "", <<>>,
                                     <<Name("targets", "x")>>)>>,
                  <<1, "value", OpOf("BinOp", "Mult",
                       <<Name("left", "a"), Name("right", "c")>>)>>,
                  <<2, "left", OpOf("BinOp", "Add",
                       <<Name("left", "a"), Name("right", "b")>>)>>,
                  <<2, "right", OpOf("UnaryOp", "USub",
                       <<Name("operand", "c")>>)>>>>),
    \* class C(a + b): pass;  x = 1 + 1
    Build(<<>>, <<<<0, "body", Tmpl("ClassDef", "C", <<>>, <<>>)>>,
                  <<1, "bases", OpOf("BinOp", "Add",
                       <<Name("left", "a"), Name("right", "b")>>)>>,
                  <<0, "body", Tmpl("Assign", "", <<>>,
                                    <<Name("targets", "x")>>)>>,
                  <<3, "value", OpOf("BinOp", "Add",
                       <<Leaf("left", "Constant", "1"),
                         Leaf("right", "Constant", "1")>>)>>>>),
    \* @(a + b) def f(x=a + b) -> (a + b): a += b
    Build(<<>>, <<<<0, "body", Tmpl("FunctionDef", "f", <<>>, <<>>)>>,
                  <<1, "args", Plain("arguments")>>,
                  <<2, "defaults", OpOf("BinOp", "Add",
                       <<Name("left", "a"), Name("right", "b")>>)>>,
                  <<1, "body", OpOf("AugAssign", "Add",
                       <<Name("target", "a"), Name("value", "b")>>)>>,
                  <<1, "decorator_list", OpOf("BinOp", "Add",
                       <<Name("left", "a"), Name("right", "b")>>)>>,
                  <<1, "returns", OpOf("BinOp", "Add",
                       <<Name("left", "a"), Name("right", "b")>>)>>>>),
    \* def g(): (a or b).c + d
    Build(<<>>, <<<<0, "body", Tmpl("FunctionDef", "g", <<>>, <<>>)>>,
                  <<1, "body", Plain("Expr")>>,
                  <<2, "value", OpOf("BinOp", "Add", <<Name("right", "d")>>)>>,
                  <<3, "left", Tmpl("Attribute", "c", <<>>, <<>>)>>,
                  <<4, "value", OpOf("BoolOp", "Or",
                       <<Name("values", "a"), Name("values", "b")>>)>>>>) }

TreesH == TreesUpTo(MaxHNodes, MenuH) \cup ProgramsH

\* from_ast: the visitor is constructed and about to visit the root.
InitH ==
  /\ tree \in TreesH
  /\ hstack = <<HEngineFrame(HalsteadVisitor(None), <<Root>>)>>
  /\ stack = <<>>
  /\ result = NoResult
  /\ nblocks = 0
  /\ rec = NoRec

NextH ==
  \/ visit_BinOp
  \/ visit_UnaryOp
  \/ visit_BoolOp
  \/ visit_AugAssign
  \/ visit_Compare
  \/ Halstead_generic_visit
  \/ Halstead_visit_FunctionDef
  \/ Halstead_from_ast
  \/ Halstead_merge
  \/ Halstead_return

SpecH == InitH /\ [][NextH]_vars

(* ------------------- reading the tree independently -------------------- *)
\* The function definition whose body n is in (Root when there is none).
RECURSIVE EnclosingFunction(_, _)
EnclosingFunction(t, n) ==
  IF n = Root THEN Root
  ELSE IF KindOf(t, t[n].parent) = "FunctionDef" THEN t[n].parent
  ELSE EnclosingFunction(t, t[n].parent)

\* n is, or is inside, a part of a function definition other than its body
\* (its arguments, decorators or return annotation).
InFunctionHeader(t, n) ==
  \E a \in ({n} \cup Ancestors(t, n)) \ {Root} :
    KindOf(t, t[a].parent) = "FunctionDef" /\ t[a].slot # "body"

OperatorNodes(t) == {n \in NodeIds(t) : KindOf(t, n) \in OperatorKinds}

\* The contribution table of the Halstead engine.
TableOperators(t, n) ==
  IF KindOf(t, n) = "Compare" THEN Len(t[n].ops) ELSE 1

TableOperands(t, n) ==
  CASE KindOf(t, n) \in {"BinOp", "AugAssign"} -> 2
    [] KindOf(t, n) = "UnaryOp" -> 1
    [] KindOf(t, n) = "BoolOp" -> FieldLen(t, n, "values")
    [] KindOf(t, n) = "Compare" -> FieldLen(t, n, "comparators") + 1

SumOver(t, ns, F(_, _)) ==
  SumSeq([i \in 1..Len(t) |-> IF i \in ns THEN F(t, i) ELSE 0])

\* The names and attribute names among the operands of n.
OperandNames(t, n) ==
  {t[n].leaves[j].val :
     j \in {i \in 1..Len(t[n].leaves) :
              t[n].leaves[i].kind \in {"Name", "Attribute"}}}
    \cup {t[k].name :
            k \in {i \in NodeIds(t) : t[i].parent = n /\ t[i].kind = "Attribute"}}

\* The identifiers used as operands, each with the function definition whose
\* body it is used in.
IdentifierUses(t) ==
  UNION {{<<EnclosingFunction(t, n), x>> : x \in OperandNames(t, n)} :
         n \in {m \in OperatorNodes(t) : ~InFunctionHeader(t, m)}}

ContextOf(t, f) == IF f = Root THEN None ELSE Some(t[f].name)

IdentifierKeys(e) == {k \in e.operands_seen : k[2][1] = "str"}

(* ------------------------------ claims --------------------------------- *)

\* C5 as stated: an identifier counts once per function definition it is
\* used in (and once for the module level), whatever the functions' names.
C5_AsStated ==
  HDone =>
    Cardinality(IdentifierKeys(HTop.eng)) = Cardinality(IdentifierUses(tree))

\* C5 amended: an operand use that lies in a part of a function definition
\* other than its body (its arguments, decorators, return annotation) is not
\* recorded at all; every other use of an identifier counts once per name of
\* a function definition in whose body it is used (the innermost one), and
\* once for the module level: twice in two functions of different names,
\* once in two functions of the same name.
C5_PerFunctionName ==
  HDone =>
    LET keys == {<<ContextOf(tree, u[1]), <<"str", u[2]>>>> :
                   u \in IdentifierUses(tree)}
    IN /\ IdentifierKeys(HTop.eng) = keys
       /\ \A u, v \in IdentifierUses(tree) :
            (u[2] = v[2] /\ ContextOf(tree, u[1]) # ContextOf(tree, v[1]))
              => Cardinality({k \in HTop.eng.operands_seen :
                                k[2] = <<"str", u[2]>>}) >= 2

C5_Witness ==
  /\ HDone
  /\ \E u, v \in IdentifierUses(tree) :
       /\ u[2] = v[2]
       /\ u[1] # Root /\ v[1] # Root
       /\ tree[u[1]].name # tree[v[1]].name
  /\ HTop.eng.operands > Cardinality(HTop.eng.operands_seen)

\* C8 as stated: the totals are the sums of the table over every operator
\* node anywhere in the tree.
C8_AsStated ==
  HDone =>
    /\ HTop.eng.operators = SumOver(tree, OperatorNodes(tree), TableOperators)
    /\ HTop.eng.operands = SumOver(tree, OperatorNodes(tree), TableOperands)

\* C8 amended: the totals are the sums of the table over every operator node
\* that is not in a part of a function definition other than its body (its
\* arguments, decorators, return annotation); x = a + b at module level gives 1 operator, 1 distinct,
\* 2 operands, 2 distinct.
C8_Totals ==
  HDone =>
    LET ns == {n \in OperatorNodes(tree) : ~InFunctionHeader(tree, n)}
    IN /\ HTop.eng.operators = SumOver(tree, ns, TableOperators)
       /\ HTop.eng.operands = SumOver(tree, ns, TableOperands)
       /\ tree = ScenarioB =>
            /\ HTop.eng.operators = 1
            /\ distinct_operators(HTop.eng) = 1
            /\ HTop.eng.operands = 2
            /\ distinct_operands(HTop.eng) = 2

C8_Witness ==
  /\ HDone
  /\ \E n \in OperatorNodes(tree) :
       /\ KindOf(tree, tree[n].parent) \in OperatorKinds
       /\ EnclosingFunction(tree, n) # Root
  /\ \E n \in OperatorNodes(tree) : KindOf(tree, n) = "Compare"

\* C10: in every visitor of every state, the distinct counts do not exceed
\* the totals, nothing is negative, and each operand key carries no context
\* or the name of a function definition of the tree.
C10_Counts ==
  \A i \in 1..Len(hstack) :
    LET e == hstack[i].eng
    IN /\ distinct_operators(e) <= e.operators
       /\ distinct_operands(e) <= e.operands
       /\ distinct_operators(e) >= 0 /\ distinct_operands(e) >= 0
       /\ e.operators >= 0 /\ e.operands >= 0
       /\ \A k \in e.operands_seen :
            \/ k[1] = None
            \/ \E n \in NodeIds(tree) :
                 KindOf(tree, n) = "FunctionDef" /\ k[1] = Some(tree[n].name)

C10_Witness ==
  /\ Len(hstack) = 1
  /\ HTop.todo # <<>>
  /\ \E k \in HTop.eng.operands_seen : k[1] # None
  /\ distinct_operands(HTop.eng) < HTop.eng.operands

====
